---- MODULE Spec2Model ----
(***************************************************************************)
(* A model of uvhelper's configuration-tree engine (uvconfig.py) and of    *)
(* the mutation commands built on it (uvstub.py).                          *)
(*                                                                         *)
(* Python objects live in a heap: a sequence of node records, an object's  *)
(* identity being its index.  A node is an xml.etree Element (cls = "")    *)
(* or a UVConfigBase of some catalog class.  `children` is the Element's   *)
(* own child list, `subconfigs` the list the catalog class keeps.          *)
(*                                                                         *)
(* A text is a sequence of runs: a run is one punctuation character, one   *)
(* digit, or an unbroken word (letters, then letters, digits, underscores),*)
(* so "./a.c" is <<".", "/", "a", ".", "c">> and "0x4" is <<"0", "x4">>.   *)
(***************************************************************************)
EXTENDS Integers, Sequences, FiniteSets, TLC

VARIABLES
    heap,       \* Seq(node): every Element / UVConfigBase object created so far
    elem,       \* the raw element handed to the constructor (0: None)
    root,       \* the constructed node under study (0: not constructed yet)
    warnings,   \* Seq(warning): what warnings.warn() has recorded, in order
    hashOrder,  \* this process's iteration order of a set of str (hash seed)
    file,       \* the project file as write() last wrote it (<<>>: not written)
    last        \* the last operation performed and how it ended

vars == <<heap, elem, root, warnings, hashOrder, file, last>>

----------------------------------------------------------------------------
(* Bounds *)

\* entries kept of each default_opts table (its last ones)
MaxDefaults == 2
\* children of the raw element a single node is loaded from
MaxChildren == 3
\* load() calls on one node after its construction
MaxLoads == 2

----------------------------------------------------------------------------
(* Texts *)

\* Element.text of an element without text (Python None)
NoText == <<"<None>">>
EmptyText == <<>>

IsStr(t) == t # NoText

\* the runs that are single decimal digits, and the runs that are neither
\* digits nor words of letters
Digits == {"0", "1", "2", "3", "4", "5", "6", "7", "8", "9"}
Punctuation == {".", "/", "&", "<", ">", ";", ":", " ", ",", "#", "(", ")", "-", "?", "="}
IsWord(r) == r \notin Digits \cup Punctuation

\* str.isidentifier()
isidentifier(t) ==
    /\ t # <<>>
    /\ IsWord(t[1])
    /\ \A i \in 1..Len(t) : IsWord(t[i]) \/ t[i] \in Digits

\* str.isdigit()
isdigit(t) == t # <<>> /\ \A i \in 1..Len(t) : t[i] \in Digits

DigitValue(d) ==
    CASE d = "0" -> 0 [] d = "1" -> 1 [] d = "2" -> 2 [] d = "3" -> 3 [] d = "4" -> 4
      [] d = "5" -> 5 [] d = "6" -> 6 [] d = "7" -> 7 [] d = "8" -> 8 [] d = "9" -> 9

\* int(t) for a t with isdigit(t)
RECURSIVE int(_)
int(t) == IF t = <<>> THEN 0 ELSE 10 * int(SubSeq(t, 1, Len(t) - 1)) + DigitValue(t[Len(t)])

\* positions of run r in t
Positions(t, r) == {i \in 1..Len(t) : t[i] = r}
First(S) == CHOOSE i \in S : \A j \in S : i <= j
Final(S) == CHOOSE i \in S : \A j \in S : j <= i

\* str.partition(sep): the parts before and after the first sep
partition(t, sep) ==
    IF Positions(t, sep) = {} THEN [head |-> t, tail |-> <<>>]
    ELSE [head |-> SubSeq(t, 1, First(Positions(t, sep)) - 1),
          tail |-> SubSeq(t, First(Positions(t, sep)) + 1, Len(t))]

\* str.rpartition(sep)[2]: the part after the last sep (all of t without one)
rpartition_tail(t, sep) ==
    IF Positions(t, sep) = {} THEN t
    ELSE SubSeq(t, Final(Positions(t, sep)) + 1, Len(t))

\* str.endswith(suffix)
endswith(t, suffix) ==
    Len(t) >= Len(suffix) /\ SubSeq(t, Len(t) - Len(suffix) + 1, Len(t)) = suffix

\* os.path.isabs, os.path.basename (posix)
isabs(t) == t # <<>> /\ t[1] = "/"
basename(t) == rpartition_tail(t, "/")

\* the components of a path as os.path.commonpath and normpath see them:
\* split at "/", the empty and the "." components dropped
RECURSIVE components(_)
components(t) ==
    IF t = <<>> THEN <<>>
    ELSE LET p == partition(t, "/")
         IN (IF p.head = <<>> \/ p.head = <<".">> THEN <<>> ELSE <<p.head>>)
            \o components(p.tail)



----------------------------------------------------------------------------
(* Generic sequence helpers *)

RECURSIVE SeqToSet(_)
SeqToSet(s) == IF s = <<>> THEN {} ELSE {Head(s)} \cup SeqToSet(Tail(s))

\* s without its i-th element (list.remove by position)
RemoveAt(s, i) == SubSeq(s, 1, i - 1) \o SubSeq(s, i + 1, Len(s))

\* the last n elements of s (all of s when it is shorter)
LastN(s, n) == IF Len(s) <= n THEN s ELSE SubSeq(s, Len(s) - n + 1, Len(s))

----------------------------------------------------------------------------
(* Node Catalog: the schema each class declares in its __init__ *)

KV(k, v) == [key |-> k, val |-> v]
Child(t, c) == [tag |-> t, cls |-> c]

Keys(tbl) == [i \in 1..Len(tbl) |-> tbl[i].key]

TargetStatus_default_opts ==
    << KV("Error", <<"0">>), KV("ExitCodeStop", <<"0">>), KV("ButtonStop", <<"0">>),
       KV("NotGenerated", <<"0">>), KV("InvalidFlash", <<"1">>) >>

Group_default_opts == << KV("GroupName", <<"DefaultGroupName">>) >>

Target_default_opts ==
    << KV("ToolsetNumber", <<"0", "x4">>), KV("ToolsetName", <<"ARM_ADS">>),
       KV("pCCUsed", <<"6", "2", "4", "0", "0", "0", "0", ":", ":", "V6", ".", "2", "4",
                     ":", ":", "ARMCLANG">>),
       KV("uAC6", <<"1">>), KV("TargetName", <<"DefaultTargetName">>) >>

Project_default_opts ==
    << KV("SchemaVersion", <<"2", ".", "1">>),
       KV("Header", <<"#", "#", "#", " ", "uVision", " ", "Project", ",", " ",
                      "(", "C", ")", " ", "Keil", " ", "Software">>) >>

Schema(tag, asserts, defaults, optkeys, childtags, loads, single, multi, ensure, namekey) ==
    [ tag |-> tag,                 \* the tag of a node created from nothing
      asserts_tag |-> asserts,     \* __init__ asserts self.tag == tag
      default_opts |-> LastN(defaults, MaxDefaults),
      option_keys |-> optkeys,     \* option_keys as __init__ sets it
      child_tags |-> childtags,    \* valid_keys that are not option keys
      loads |-> loads,             \* __init__ calls self.load()
      single |-> single,           \* subconfigs built from self.find("./tag")
      multi |-> multi,             \* subconfigs built from self.iterfind("./tag")
      ensure_one |-> ensure,       \* a default one is added when iterfind finds none
      name_key |-> namekey ]       \* the option the class's name list is taken from

Catalog(cls) ==
    CASE cls = "TargetStatus" ->
           Schema("TargetStatus", TRUE, TargetStatus_default_opts,
                  Keys(LastN(TargetStatus_default_opts, MaxDefaults)), {},
                  TRUE, <<>>, <<>>, FALSE, "")
      [] cls = "File" ->
           Schema("File", TRUE, <<>>, <<"FileName", "FileType", "FilePath">>, {},
                  TRUE, <<>>, <<>>, FALSE, "")
      [] cls = "Files" ->
           Schema("Files", TRUE, <<>>, <<>>, {"File"},
                  FALSE, <<>>, <<Child("File", "File")>>, FALSE, "")
      [] cls = "Group" ->
           Schema("Group", TRUE, Group_default_opts, <<"GroupName">>, {"Files"},
                  TRUE, <<Child("Files", "Files")>>, <<>>, FALSE, "")
      [] cls = "TargetOption" ->
           Schema("TargetOption", TRUE, <<>>, <<>>,
                  {"TargetCommonOption", "CommonProperty", "DllOption",
                   "DebugOption", "Utilities", "TargetArmAds"},
                  TRUE, <<>>, <<>>, FALSE, "")
      [] cls = "Groups" ->
           Schema("Groups", FALSE, <<>>, <<>>, {"Group"},
                  TRUE, <<>>, <<Child("Group", "Group")>>, FALSE, "GroupName")
      [] cls = "Target" ->
           Schema("Target", TRUE, Target_default_opts,
                  Keys(LastN(Target_default_opts, MaxDefaults)),
                  {"TargetOption", "Groups"},
                  TRUE, <<Child("TargetOption", "TargetOption"), Child("Groups", "Groups")>>,
                  <<>>, FALSE, "")
      [] cls = "RTE" ->
           Schema("RTE", TRUE, <<>>, <<"apis", "components", "files">>, {},
                  TRUE, <<>>, <<>>, FALSE, "")
      [] cls = "Layer" ->
           Schema("Layer", TRUE, <<>>, <<"LayName", "LayPrjMark">>, {},
                  TRUE, <<>>, <<>>, FALSE, "")
      [] cls = "Targets" ->
           Schema("Targets", TRUE, <<>>, <<>>, {"Target"},
                  TRUE, <<>>, <<Child("Target", "Target")>>, TRUE, "TargetName")
      [] cls = "Layers" ->
           Schema("Layers", TRUE, <<>>, <<>>, {"Layer"},
                  TRUE, <<>>, <<Child("Layer", "Layer")>>, FALSE, "")
      [] cls = "LayerInfo" ->
           Schema("LayerInfo", TRUE, <<>>, <<>>, {"Layers"},
                  TRUE, <<Child("Layers", "Layers")>>, <<>>, FALSE, "")
      [] cls = "Project" ->
           Schema("Project", TRUE, Project_default_opts, Keys(Project_default_opts),
                  {"Targets", "RTE", "LayerInfo"},
                  TRUE, <<Child("Targets", "Targets"), Child("RTE", "RTE"),
                          Child("LayerInfo", "LayerInfo")>>,
                  <<>>, FALSE, "")

\* dict lookup in a key/value table
HasKey(tbl, k) == \E i \in 1..Len(tbl) : tbl[i].key = k
Lookup(tbl, k) == tbl[CHOOSE i \in 1..Len(tbl) : tbl[i].key = k].val

\* option_keys after load_keys's update: the declared keys, then the keys of
\* default_opts not among them, in table order
RECURSIVE AppendNew(_, _)
AppendNew(keys, more) ==
    IF more = <<>> THEN keys
    ELSE AppendNew(IF Head(more) \in SeqToSet(keys) THEN keys ELSE Append(keys, Head(more)),
                   Tail(more))

option_keys(cls) == AppendNew(Catalog(cls).option_keys, Keys(Catalog(cls).default_opts))

\* valid_keys after load_keys's update (classes that never load keep what
\* __init__ set)
valid_keys(cls) ==
    IF Catalog(cls).loads
    THEN SeqToSet(option_keys(cls)) \cup Catalog(cls).child_tags
    ELSE SeqToSet(Catalog(cls).option_keys) \cup Catalog(cls).child_tags

----------------------------------------------------------------------------
(* The heap.  An operation threads st = [heap, warnings, file, err, ret]    *)
(* through its steps: err is set by a failed assert or a raised exception  *)
(* (which then unwinds every caller), ret is the object the last           *)
(* constructor call created.                                               *)

Node(tag, text, children, cls) ==
    [ tag |-> tag, text |-> text, children |-> children, cls |-> cls,
      options |-> <<>>,      \* OrderedDict, as a sequence of key/value pairs
      subconfigs |-> <<>>,
      names |-> <<>>,        \* Targets._target_names / Groups._group_names
      loads |-> <<>> ]       \* history: the heap size at each call of load()

St(h, w, f) == [heap |-> h, warnings |-> w, file |-> f, err |-> FALSE, ret |-> 0]

Warning(kind, tag, owner) == [kind |-> kind, tag |-> tag, owner |-> owner]

warn(st, w) == [st EXCEPT !.warnings = Append(@, w)]

Alloc(st, node) == [st EXCEPT !.heap = Append(@, node), !.ret = Len(st.heap) + 1]

TagsOf(h, ids) == [i \in 1..Len(ids) |-> h[ids[i]].tag]

\* a find that returns the last child with that tag
find_last(h, id, tag) ==
    LET ch == h[id].children
        hits == {i \in 1..Len(ch) : h[ch[i]].tag = tag}
    IN IF hits = {} THEN 0 ELSE ch[CHOOSE i \in hits : \A j \in hits : j <= i]

\* Element.find("./tag"): the first child with that tag, 0 for None
find(h, id, tag) ==
    LET ch == h[id].children
        hits == {i \in 1..Len(ch) : h[ch[i]].tag = tag}
    IN IF hits = {} THEN 0 ELSE ch[CHOOSE i \in hits : \A j \in hits : i <= j]

\* Element.iterfind("./tag"): the children with that tag, in document order
iterfind(h, id, tag) ==
    LET ch == h[id].children
    IN SelectSeq(ch, LAMBDA c : h[c].tag = tag)

\* UVConfigBase.__init__: an Element argument is copied (same tag, the same
\* child objects, no text); a str argument creates an empty node and warns
UVConfigBase_init(st, el, tag, cls) ==
    IF el # 0
    THEN Alloc(st, Node(st.heap[el].tag, NoText, st.heap[el].children, cls))
    ELSE Alloc(warn(st, Warning("empty", tag, tag)), Node(tag, NoText, <<>>, cls))

\* load_keys, first loop: `for elem in self` walks the child list by
\* position while self.remove(elem) shortens it
RECURSIVE load_keys_prune(_, _, _, _)
load_keys_prune(st, id, i, subs) ==
    LET ch == st.heap[id].children
        me == st.heap[id]
    IN IF i > Len(ch) THEN [st |-> st, subs |-> subs]
       ELSE LET tag == st.heap[ch[i]].tag
            IN IF tag \notin valid_keys(me.cls)
               THEN load_keys_prune(
                        [warn(st, Warning("invalid", tag, me.tag))
                            EXCEPT !.heap[id].children = RemoveAt(ch, i)],
                        id, i + 1, subs)
               ELSE load_keys_prune(st, id, i + 1, subs \cup {tag})

\* The order in which `for tag in set(...)` visits the keys of a class's
\* default_opts that are in S
SetOrder(cls, S) ==
    LET tbl == Catalog(cls).default_opts
        pos == SelectSeq(hashOrder, LAMBDA p : p <= Len(tbl))
    IN SelectSeq([i \in 1..Len(pos) |-> tbl[pos[i]].key], LAMBDA k : k \in S)

\* load_keys_create with the new leaf put first in the child list
RECURSIVE load_keys_create_front(_, _, _)
load_keys_create_front(st, id, tags) ==
    IF tags = <<>> THEN st
    ELSE LET me == st.heap[id]
             tag == Head(tags)
             sube == Len(st.heap) + 1
             s1 == [st EXCEPT !.heap =
                       Append(@, Node(tag, Lookup(Catalog(me.cls).default_opts, tag),
                                      <<>>, ""))]
             s2 == warn(s1, Warning("default", tag, me.tag))
         IN load_keys_create_front(
                [s2 EXCEPT !.heap[id].children = <<sube>> \o @], id, Tail(tags))

\* load_keys_create with the new leaf left without its default text
RECURSIVE load_keys_create_notext(_, _, _)
load_keys_create_notext(st, id, tags) ==
    IF tags = <<>> THEN st
    ELSE LET me == st.heap[id]
             tag == Head(tags)
             sube == Len(st.heap) + 1
             s1 == [st EXCEPT !.heap = Append(@, Node(tag, NoText, <<>>, ""))]
             s2 == warn(s1, Warning("default", tag, me.tag))
         IN load_keys_create_notext(
                [s2 EXCEPT !.heap[id].children = Append(@, sube)], id, Tail(tags))

\* load_keys, second loop: one new leaf per default option without a child
RECURSIVE load_keys_create(_, _, _)
load_keys_create(st, id, tags) ==
    IF tags = <<>> THEN st
    ELSE LET me == st.heap[id]
             tag == Head(tags)
             sube == Len(st.heap) + 1
             s1 == [st EXCEPT !.heap =
                       Append(@, Node(tag, Lookup(Catalog(me.cls).default_opts, tag),
                                      <<>>, ""))]
             s2 == warn(s1, Warning("default", tag, me.tag))
         IN load_keys_create(
                [s2 EXCEPT !.heap[id].children = Append(@, sube)], id, Tail(tags))

load_keys(st, id) ==
    LET cls == st.heap[id].cls
        p == load_keys_prune(st, id, 1, {})
        missing == SeqToSet(Keys(Catalog(cls).default_opts)) \ p.subs
    IN load_keys_create(p.st, id, SetOrder(cls, missing))

\* options[key] = val on an OrderedDict
SetOption(opts, k, v) ==
    IF HasKey(opts, k)
    THEN [i \in 1..Len(opts) |-> IF opts[i].key = k THEN KV(k, v) ELSE opts[i]]
    ELSE Append(opts, KV(k, v))

RECURSIVE load_options_loop(_, _, _)
load_options_loop(st, id, keys) ==
    IF keys = <<>> THEN st
    ELSE LET me == st.heap[id]
             key == Head(keys)
             e == find(st.heap, id, key)
             dflt == Catalog(me.cls).default_opts
         IN IF e = 0
            THEN load_options_loop(
                     [warn(st, Warning("expected", key, me.tag))
                        EXCEPT !.heap[id].options =
                            SetOption(@, key, IF HasKey(dflt, key) THEN Lookup(dflt, key)
                                                                  ELSE EmptyText)],
                     id, Tail(keys))
            ELSE load_options_loop(
                     [st EXCEPT !.heap[id].options =
                            SetOption(@, key, IF IsStr(st.heap[e].text) THEN st.heap[e].text
                                                                       ELSE EmptyText)],
                     id, Tail(keys))

\* load_options that takes only what the element holds, as it holds it
RECURSIVE load_options_found(_, _, _)
load_options_found(st, id, keys) ==
    IF keys = <<>> THEN st
    ELSE IF find(st.heap, id, Head(keys)) = 0 THEN load_options_found(st, id, Tail(keys))
    ELSE load_options_found(
            [st EXCEPT !.heap[id].options =
                SetOption(@, Head(keys), st.heap[find(st.heap, id, Head(keys))].text)],
            id, Tail(keys))

load_options_as_found(st, id) ==
    load_options_found(st, id, option_keys(st.heap[id].cls))

\* load_options that walks the option leaves in the order of the element,
\* then the options the element lacks
load_options_document_order(st, id) ==
    load_options_loop(st, id,
        AppendNew(AppendNew(<<>>, SelectSeq(TagsOf(st.heap, st.heap[id].children),
                                            LAMBDA t : t \in SeqToSet(option_keys(st.heap[id].cls)))),
                  option_keys(st.heap[id].cls)))

load_options(st, id) == load_options_loop(st, id, option_keys(st.heap[id].cls))

\* UVConfigBase.load; the call is noted in the node's history
load(st, id) ==
    load_options(load_keys([st EXCEPT !.heap[id].loads = Append(@, Len(st.heap))], id), id)

----------------------------------------------------------------------------
(* link and the constructors *)

\* {sub.tag: i for i, sub in enumerate(self.subconfigs)}: a later subconfig
\* with the same tag overwrites the entry of an earlier one
subconfig_index(h, id, tag) ==
    LET subs == h[id].subconfigs
        hits == {i \in 1..Len(subs) : h[subs[i]].tag = tag}
    IN IF hits = {} THEN 0 ELSE CHOOSE i \in hits : \A j \in hits : j <= i

\* link, first loop: self[i] = self.subconfigs[subconfig_tags[self[i].tag]]
link_replace(h, id) ==
    LET ch == h[id].children
    IN [h EXCEPT ![id].children =
            [i \in 1..Len(ch) |->
                IF subconfig_index(h, id, h[ch[i]].tag) # 0
                THEN h[id].subconfigs[subconfig_index(h, id, h[ch[i]].tag)]
                ELSE ch[i]]]

RECURSIVE link(_, _, _), link_subs(_, _, _, _)
link(h, id, recurse) ==
    LET h1 == link_replace(h, id)
    IN IF recurse THEN link_subs(h1, id, 1, recurse) ELSE h1

\* link, second loop: `if not sube in self: self.append(sube)`, then
\* sube.link(recurse)
link_subs(h, id, i, recurse) ==
    IF i > Len(h[id].subconfigs) THEN h
    ELSE LET sube == h[id].subconfigs[i]
             h1 == IF sube \in SeqToSet(h[id].children) THEN h
                   ELSE [h EXCEPT ![id].children = Append(@, sube)]
         IN link_subs(link(h1, sube, recurse), id, i + 1, recurse)

OptionValue(node, key) == Lookup(node.options, key)

RECURSIVE Construct(_, _, _), ConstructSingle(_, _, _), ConstructMulti(_, _, _, _)

\* the assertion placed after self.load()
construct_load_late(s0, c) ==
    IF c.asserts_tag /\ s0.heap[s0.ret].tag # c.tag
    THEN [load(s0, s0.ret) EXCEPT !.err = TRUE]
    ELSE IF c.loads THEN load(s0, s0.ret)
    ELSE s0

\* `assert self.tag == ...`, then self.load() where the class calls it
construct_load(s0, c) ==
    IF c.asserts_tag /\ s0.heap[s0.ret].tag # c.tag THEN [s0 EXCEPT !.err = TRUE]
    ELSE IF c.loads THEN load(s0, s0.ret)
    ELSE s0

\* self.x = Cls(self.find("./tag")) for each single subconfig, in order;
\* r = [st, id, ids]: the state, the node being built, its subconfigs so far
ConstructSingle(r, specs, i) ==
    IF i > Len(specs) \/ r.st.err THEN r
    ELSE ConstructSingle(
            [r EXCEPT !.st = Construct(r.st, specs[i].cls,
                                       find(r.st.heap, r.id, specs[i].tag)),
                      !.ids = Append(@, Len(r.st.heap) + 1)],
            specs, i + 1)

\* for elem in self.iterfind("./tag"): self.xs.append(Cls(elem))
ConstructMulti(r, cls, els, i) ==
    IF i > Len(els) \/ r.st.err THEN r
    ELSE ConstructMulti(
            [r EXCEPT !.st = Construct(r.st, cls, els[i]),
                      !.ids = Append(@, Len(r.st.heap) + 1)],
            cls, els, i + 1)

construct_multi(r, c) ==
    IF c.multi = <<>> THEN r
    ELSE ConstructMulti(r, c.multi[1].cls, iterfind(r.st.heap, r.id, c.multi[1].tag), 1)

\* Targets: `if not self.targets:` warn and append UVTarget(None)
construct_ensure(r, c) ==
    IF c.ensure_one /\ r.ids = <<>> /\ ~r.st.err
    THEN [r EXCEPT !.st = Construct(warn(r.st, Warning("no_target", c.multi[1].tag, c.tag)),
                                    c.multi[1].cls, 0),
                   !.ids = <<Len(r.st.heap) + 1>>]
    ELSE r

\* self.subconfigs = [...]; the name list of Targets / Groups; UVProject
\* ends with self.link()
construct_finish(r, c, cls) ==
    IF r.st.err THEN r.st
    ELSE [r.st EXCEPT
            !.ret = r.id,
            !.heap = IF cls = "Project"
                     THEN link([@ EXCEPT ![r.id].subconfigs = r.ids], r.id, TRUE)
                     ELSE [@ EXCEPT
                             ![r.id].subconfigs = r.ids,
                             ![r.id].names =
                                 IF c.name_key = "" THEN <<>>
                                 ELSE [i \in 1..Len(r.ids) |->
                                          OptionValue(r.st.heap[r.ids[i]], c.name_key)]]]

construct_subs(s1, c, cls) ==
    construct_finish(
        construct_ensure(
            construct_multi(
                ConstructSingle([st |-> s1, id |-> s1.ret, ids |-> <<>>], c.single, 1),
                c),
            c),
        c, cls)

\* The __init__ of catalog class cls, called with element el (0: None)
Construct(st, cls, el) ==
    construct_subs(
        construct_load(UVConfigBase_init(st, el, Catalog(cls).tag, cls), Catalog(cls)),
        Catalog(cls), cls)

----------------------------------------------------------------------------
(* Serialization.  The output is the sequence of runs written; the         *)
(* indentation and the line ends between elements are left out.  An option *)
(* value is written as it is, run by run.                                  *)

OpenTag(tag) == <<"<", tag, ">">>
CloseTag(tag) == <<"<", "/", tag, ">">>

RECURSIVE repr_options(_, _)
repr_options(opts, i) ==
    IF i > Len(opts) THEN <<>>
    ELSE OpenTag(opts[i].key) \o (IF opts[i].val = NoText THEN <<>> ELSE opts[i].val)
         \o CloseTag(opts[i].key)
         \o repr_options(opts, i + 1)

\* UVConfigBase.__repr__(indent, has_this)
RECURSIVE repr(_, _, _), repr_subconfigs(_, _, _)

\* a __repr__ that writes, for each option, the text of the child leaf of
\* that name where the node has one
RECURSIVE repr_options_children(_, _, _)
repr_options_children(h, id, i) ==
    IF i > Len(h[id].options) THEN <<>>
    ELSE OpenTag(h[id].options[i].key)
         \o (IF find(h, id, h[id].options[i].key) = 0 THEN h[id].options[i].val
             ELSE IF h[find(h, id, h[id].options[i].key)].text = NoText THEN <<>>
             ELSE h[find(h, id, h[id].options[i].key)].text)
         \o CloseTag(h[id].options[i].key)
         \o repr_options_children(h, id, i + 1)

repr_children(h, id, has_this) ==
    (IF has_this THEN OpenTag(h[id].tag) ELSE <<>>)
    \o repr_options_children(h, id, 1)
    \o repr_subconfigs(h, h[id].subconfigs, 1)
    \o (IF has_this THEN CloseTag(h[id].tag) ELSE <<>>)

repr(h, id, has_this) ==
    (IF has_this THEN OpenTag(h[id].tag) ELSE <<>>)
    \o repr_options(h[id].options, 1)
    \o repr_subconfigs(h, h[id].subconfigs, 1)
    \o (IF has_this THEN CloseTag(h[id].tag) ELSE <<>>)

repr_subconfigs(h, subs, i) ==
    IF i > Len(subs) THEN <<>>
    ELSE repr(h, subs[i], TRUE) \o repr_subconfigs(h, subs, i + 1)

XmlDeclaration == <<"<", "?", "xml", " ", "version", "?", ">">>
ProjectOpenTag == <<"<", "Project", " ", "xmlns", ":", "xsi", " ",
                    "xsi", ":", "noNamespaceSchemaLocation", ">">>

\* UVProject.__repr__
UVProject_repr(h, id) ==
    XmlDeclaration \o ProjectOpenTag \o repr(h, id, FALSE) \o CloseTag("Project")

\* UVProject.write(fn)
write(st, id) == [st EXCEPT !.file = UVProject_repr(st.heap, id)]

----------------------------------------------------------------------------
(* Parsing (xml.etree.ElementTree): the runs of a file become a tree of    *)
(* [tag, text, kids]; ok is FALSE where the parser raises ParseError.      *)
(* "<" opens markup wherever it stands and "&" an entity reference.        *)

Tree(tag, text, kids) == [tag |-> tag, text |-> text, kids |-> kids]
Bad == [ok |-> FALSE, next |-> 0, tree |-> Tree("", NoText, <<>>)]

Entities == {"amp", "lt", "gt"}
EntityChar(name) == CASE name = "amp" -> "&" [] name = "lt" -> "<" [] name = "gt" -> ">"

\* the position of the ">" that ends the start tag whose attributes begin
\* at i, 0 when a "<" or the end of the input comes first
RECURSIVE tag_end(_, _)
tag_end(rs, i) ==
    IF i > Len(rs) \/ rs[i] = "<" THEN 0
    ELSE IF rs[i] = ">" THEN i
    ELSE tag_end(rs, i + 1)

RECURSIVE parse_element(_, _), parse_content(_, _, _)

\* acc = [tag, text, kids, ok, next]: the element being read and its content
\* so far; text is recorded up to the first child element only
parse_content(rs, i, acc) ==
    IF i + 1 > Len(rs) THEN Bad
    ELSE IF rs[i] = "<" /\ rs[i + 1] = "/"
    THEN IF i + 3 <= Len(rs) /\ rs[i + 2] = acc.tag /\ rs[i + 3] = ">"
         THEN [ok |-> TRUE, next |-> i + 4, tree |-> Tree(acc.tag, acc.text, acc.kids)]
         ELSE Bad
    ELSE IF rs[i] = "<"
    THEN LET e == parse_element(rs, i)
         IN IF e.ok THEN parse_content(rs, e.next, [acc EXCEPT !.kids = Append(@, e.tree)])
            ELSE Bad
    ELSE IF rs[i] = "&"
    THEN IF i + 2 <= Len(rs) /\ rs[i + 1] \in Entities /\ rs[i + 2] = ";"
         THEN parse_content(rs, i + 3,
                  IF acc.kids # <<>> THEN acc
                  ELSE [acc EXCEPT !.text = (IF @ = NoText THEN <<>> ELSE @)
                                            \o <<EntityChar(rs[i + 1])>>])
         ELSE Bad
    ELSE parse_content(rs, i + 1,
             IF acc.kids # <<>> THEN acc
             ELSE [acc EXCEPT !.text = (IF @ = NoText THEN <<>> ELSE @) \o <<rs[i]>>])

\* an element starting at rs[i] = "<"
parse_element(rs, i) ==
    IF i + 1 > Len(rs) \/ rs[i] # "<" \/ ~IsWord(rs[i + 1]) \/ tag_end(rs, i + 2) = 0 THEN Bad
    ELSE parse_content(rs, tag_end(rs, i + 2) + 1, Tree(rs[i + 1], NoText, <<>>))

\* ET.fromstring / ET.parse(...).getroot(): the XML declaration, then the
\* root element
fromstring(rs) ==
    IF Len(rs) >= 2 /\ rs[1] = "<" /\ rs[2] = "?"
    THEN IF tag_end(rs, 2) = 0 THEN Bad ELSE parse_element(rs, tag_end(rs, 2) + 1)
    ELSE parse_element(rs, 1)

\* the objects the parser creates for a tree: the children first, the
\* element itself last
RECURSIVE alloc_tree(_, _), alloc_kids(_, _, _)
alloc_tree(h, t) ==
    LET r == alloc_kids([h |-> h, ids |-> <<>>], t.kids, 1)
    IN Append(r.h, Node(t.tag, t.text, r.ids, ""))

alloc_kids(r, kids, i) ==
    IF i > Len(kids) \/ Len(r.h) < 0 THEN r
    ELSE LET h1 == alloc_tree(r.h, kids[i])
         IN alloc_kids([h |-> h1, ids |-> Append(r.ids, Len(h1))], kids, i + 1)

----------------------------------------------------------------------------
(* The mutation API of the catalog classes *)

raise(st) == [st EXCEPT !.err = TRUE]

\* UVTarget.targ_opt / .groups, UVProject.targets, UVGroup.files
targets_of(h, proj) == h[proj].subconfigs[1]
groups_of(h, targ) == h[targ].subconfigs[2]
files_of(h, group) == h[group].subconfigs[1]

\* sync_options loop body that updates a leaf it finds and creates none
sync_option_existing(st, id, key, val) ==
    IF find(st.heap, id, key) = 0 THEN st
    ELSE [st EXCEPT !.heap[find(st.heap, id, key)].text =
                        IF val = NoText THEN EmptyText ELSE val]

\* sync_options, loop body: the child leaf named key gets the option's value
\* as its text; a missing leaf is created (UVConfigBase(key)) and appended
sync_option(st, id, key, val) ==
    IF find(st.heap, id, key) = 0
    THEN [warn(warn(st, Warning("adding", key, st.heap[id].tag)), Warning("empty", key, key))
            EXCEPT !.heap = Append([@ EXCEPT ![id].children = Append(@, Len(st.heap) + 1)],
                                   Node(key, IF val = NoText THEN EmptyText ELSE val, <<>>, ""))]
    ELSE [st EXCEPT !.heap[find(st.heap, id, key)].text =
                        IF val = NoText THEN EmptyText ELSE val]

RECURSIVE sync_options(_, _, _), sync_keys(_, _, _), sync_subs(_, _, _)
sync_keys(st, id, i) ==
    IF i > Len(st.heap[id].options) THEN st
    ELSE sync_keys(sync_option(st, id, st.heap[id].options[i].key,
                               st.heap[id].options[i].val),
                   id, i + 1)

sync_subs(st, subs, i) ==
    IF i > Len(subs) THEN st
    ELSE sync_subs(sync_options(st, subs[i], TRUE), subs, i + 1)

\* UVConfigBase.sync_options(recurse)
sync_options(st, id, recurse) ==
    IF recurse THEN sync_subs(sync_keys(st, id, 1), st.heap[id].subconfigs, 1)
    ELSE sync_keys(st, id, 1)

\* UVTarget.name / UVGroup.name setter: asserts val.isidentifier()
set_name(st, id, key, val) ==
    IF ~isidentifier(val) THEN raise(st)
    ELSE [st EXCEPT !.heap[id].options = SetOption(@, key, val)]

\* add_target / add_group without the assertion on the name
add_named_unchecked(st, owner, id, key) ==
    [st EXCEPT !.heap[owner].subconfigs = Append(@, id),
               !.heap[owner].names = Append(@, OptionValue(st.heap[id], key))]

\* UVProject.Targets.add_target(targ) and UVTarget.Groups.add_group(group):
\* the object joins the class's own list, subconfigs and the name list
add_named(st, owner, id, key) ==
    IF OptionValue(st.heap[id], key) \in SeqToSet(st.heap[owner].names) THEN raise(st)
    ELSE [st EXCEPT !.heap[owner].subconfigs = Append(@, id),
                    !.heap[owner].names = Append(@, OptionValue(st.heap[id], key))]

\* the path setter without the assertion on absolute paths
set_path_unchecked(st, f, val) ==
    [st EXCEPT !.heap[f].options =
        SetOption(SetOption(SetOption(@, "FilePath", val),
                            "FileName", basename(val)),
                  "FileType", IF endswith(val, <<".", "c">>) THEN <<"1">> ELSE <<"2">>)]

\* UVGroup.Files.File.path setter
set_path(st, f, val) ==
    IF isabs(val) THEN raise(st)
    ELSE [st EXCEPT !.heap[f].options =
            SetOption(SetOption(SetOption(@, "FilePath", val),
                                "FileName", basename(val)),
                      "FileType", IF endswith(val, <<".", "c">>) THEN <<"1">> ELSE <<"2">>)]

\* after `f = UVGroup.Files.File()`: f.path = fn, then the appends
add_file_set(st, fs, fn) ==
    IF set_path(st, st.ret, fn).err THEN raise(st)
    ELSE [set_path(st, st.ret, fn) EXCEPT !.heap[fs].subconfigs = Append(@, st.ret)]

\* UVGroup.Files.add_file(fn)
add_file(st, fs, fn) == add_file_set(Construct(st, "File", 0), fs, fn)

----------------------------------------------------------------------------
(* The commands of uvstub.Manipulator.  arg is args["group"], the text     *)
(* "target/group" of the command line.                                     *)

target_names(h, proj) == h[targets_of(h, proj)].names

\* list.index(x): the first position of x (from 1)
index(names, x) == First({i \in 1..Len(names) : names[i] = x})

target_by_name(h, proj, name) ==
    h[targets_of(h, proj)].subconfigs[index(target_names(h, proj), name)]

group_names(h, targ) == h[groups_of(h, targ)].names

\* parse_targ_group, second half: a numeric group is replaced by the name at
\* that ordinal when the target exists
parse_group(h, proj, target, group) ==
    IF isdigit(group) /\ target \in SeqToSet(target_names(h, proj))
    THEN IF int(group) >= Len(group_names(h, target_by_name(h, proj, target)))
         THEN [target |-> target, group |-> group, err |-> TRUE]
         ELSE [target |-> target,
               group |-> group_names(h, target_by_name(h, proj, target))[int(group) + 1],
               err |-> FALSE]
    ELSE [target |-> target, group |-> group, err |-> FALSE]

\* Manipulator.parse_targ_group: err is the IndexError of an ordinal that is
\* out of range
parse_targ_group(h, proj, arg) ==
    IF isdigit(partition(arg, "/").head)
    THEN IF int(partition(arg, "/").head) >= Len(target_names(h, proj))
         THEN [target |-> <<>>, group |-> <<>>, err |-> TRUE]
         ELSE parse_group(h, proj, target_names(h, proj)[int(partition(arg, "/").head) + 1],
                          partition(arg, "/").tail)
    ELSE parse_group(h, proj, partition(arg, "/").head, partition(arg, "/").tail)

\* write_proj(False), reached only when nothing was raised before
write_proj(st, proj) == IF st.err THEN st ELSE write(st, proj)

\* add_target without `targ.name = targ_nm`
add_target_unnamed(st, proj, targ_nm) ==
    add_named(st, targets_of(st.heap, proj), st.ret, "TargetName")

\* add_target after `targ = UVTarget()`: targ.name = targ_nm, then
\* self.proj.targets.add_target(targ)
add_target_new(st, proj, targ_nm) ==
    IF set_name(st, st.ret, "TargetName", targ_nm).err THEN raise(st)
    ELSE add_named(set_name(st, st.ret, "TargetName", targ_nm),
                   targets_of(st.heap, proj), st.ret, "TargetName")

\* Manipulator.add_target
Manipulator_add_target(st, proj, arg) ==
    IF st.err THEN st
    ELSE IF parse_targ_group(st.heap, proj, arg).err THEN raise(st)
    ELSE IF parse_targ_group(st.heap, proj, arg).target
                \in SeqToSet(target_names(st.heap, proj))
    THEN [warn(st, Warning("exists", "Target", "Targets")) EXCEPT !.ret = 0]
    ELSE write_proj(add_target_new(Construct(st, "Target", 0), proj,
                                   parse_targ_group(st.heap, proj, arg).target),
                    proj)

\* add_group without `g.name = group`
add_group_unnamed(st, targ, group) ==
    add_named(st, groups_of(st.heap, targ), st.ret, "GroupName")

\* add_group after `g = UVGroup()`: g.name = group, then
\* targ.groups.add_group(g)
add_group_new(st, targ, group) ==
    IF set_name(st, st.ret, "GroupName", group).err THEN raise(st)
    ELSE add_named(set_name(st, st.ret, "GroupName", group),
                   groups_of(st.heap, targ), st.ret, "GroupName")

\* add_group from `idx = ...index(target)` on; p is what parse_targ_group
\* returned at the start of the command
add_group_in(st, proj, p) ==
    IF st.err THEN st
    ELSE IF p.group \in SeqToSet(group_names(st.heap, target_by_name(st.heap, proj, p.target)))
    THEN [warn(st, Warning("exists", "Group", "Groups")) EXCEPT !.ret = 0]
    ELSE write_proj(add_group_new(Construct(st, "Group", 0),
                                  target_by_name(st.heap, proj, p.target), p.group),
                    proj)

\* `if not target in self.proj.targets.target_names: self.add_target()`
ensure_target(st, proj, arg, p) ==
    IF p.target \in SeqToSet(target_names(st.heap, proj)) THEN st
    ELSE Manipulator_add_target(st, proj, arg)

\* Manipulator.add_group
Manipulator_add_group(st, proj, arg) ==
    IF st.err THEN st
    ELSE IF parse_targ_group(st.heap, proj, arg).err THEN raise(st)
    ELSE add_group_in(ensure_target(st, proj, arg, parse_targ_group(st.heap, proj, arg)),
                      proj, parse_targ_group(st.heap, proj, arg))

SourceSuffixes == {<<"c">>, <<"cpp">>, <<"s">>, <<"cxx">>, <<"S">>}

\* os.path.join of normalized components: the path os.path.relpath returns
RECURSIVE join(_)
join(comps) ==
    IF comps = <<>> THEN <<>>
    ELSE IF Len(comps) = 1 THEN comps[1]
    ELSE comps[1] \o <<"/">> \o join(Tail(comps))

\* os.path.commonpath of two relative paths: the longest common prefix of
\* their component lists, joined
RECURSIVE CommonPrefix(_, _)
CommonPrefix(a, b) ==
    IF a = <<>> \/ b = <<>> \/ Head(a) # Head(b) THEN <<>>
    ELSE <<Head(a)>> \o CommonPrefix(Tail(a), Tail(b))

commonpath(a, b) == join(CommonPrefix(components(a), components(b)))

\* add_src's search `os.path.commonpath((f.path, fn)) == fn` over the files of
\* the group, from the i-th: "yes", "no", or "error" for the ValueError
\* commonpath raises when f.path is absolute and fn is not
RECURSIVE has_file(_, _, _, _)
has_file(h, files, i, fn) ==
    IF i > Len(files) THEN "no"
    ELSE IF isabs(OptionValue(h[files[i]], "FilePath")) THEN "error"
    ELSE IF commonpath(OptionValue(h[files[i]], "FilePath"), fn) = fn THEN "yes"
    ELSE has_file(h, files, i + 1, fn)

\* add_src's loop body for one globbed file fn (relative to the project
\* directory, outside the stub directory), then write_proj
add_src_file(st, fs, proj, fn) ==
    IF st.err THEN st
    ELSE IF rpartition_tail(fn, ".") \notin SourceSuffixes THEN write_proj(st, proj)
    ELSE IF has_file(st.heap, st.heap[fs].subconfigs, 1, fn) = "error" THEN raise(st)
    ELSE IF has_file(st.heap, st.heap[fs].subconfigs, 1, fn) = "yes" THEN write_proj(st, proj)
    ELSE write_proj(add_file(st, fs, <<".", "/">> \o fn), proj)

\* `if not group in targ.groups.group_names: self.add_group()`
ensure_group(st, proj, arg, p) ==
    IF st.err THEN st
    ELSE IF p.group \in SeqToSet(group_names(st.heap, target_by_name(st.heap, proj, p.target)))
    THEN st
    ELSE Manipulator_add_group(st, proj, arg)

group_by_name(h, targ, name) ==
    h[groups_of(h, targ)].subconfigs[index(group_names(h, targ), name)]

\* add_src from `idx = targ.groups.group_names.index(group)` on
add_src_in(st, proj, p, fn) ==
    IF st.err THEN st
    ELSE add_src_file(st,
            files_of(st.heap,
                     group_by_name(st.heap, target_by_name(st.heap, proj, p.target), p.group)),
            proj, fn)

\* Manipulator.add_src, for a pattern that names one existing file
Manipulator_add_src(st, proj, arg, ptrn) ==
    IF st.err THEN st
    ELSE IF isabs(ptrn) \/ parse_targ_group(st.heap, proj, arg).err THEN raise(st)
    ELSE add_src_in(
            ensure_group(ensure_target(st, proj, arg, parse_targ_group(st.heap, proj, arg)),
                         proj, arg, parse_targ_group(st.heap, proj, arg)),
            proj, parse_targ_group(st.heap, proj, arg), join(components(ptrn)))

----------------------------------------------------------------------------
(* Loading one node: a raw element of a leaf-like class is constructed,    *)
(* then loaded again.                                                      *)

LoadClasses == {"TargetStatus", "RTE", "Group"}
LeafTexts == {NoText, <<"p">>, <<"q">>}
UnknownTags == {"X"}

\* how an operation ended: an exception, an early return, or its normal end
Outcome(st) == IF st.err THEN "raised" ELSE IF st.ret = 0 THEN "rejected" ELSE "ok"

Op(op, how, args, loads) == [op |-> op, how |-> how, args |-> args, loads |-> loads]

\* the children a hand-edited element of class cls may hold
RawLeaves(cls) ==
    {[tag |-> k, text |-> t] : k \in SeqToSet(option_keys(cls)), t \in LeafTexts}
    \cup {[tag |-> k, text |-> NoText] : k \in UnknownTags \cup Catalog(cls).child_tags}

RawKids(cls) == UNION {[1..n -> RawLeaves(cls)] : n \in 0..MaxChildren}

\* the heap holding one raw element with leaf children `kids`
RawHeap(tag, kids) ==
    [i \in 1..Len(kids) |-> Node(kids[i].tag, kids[i].text, <<>>, "")]
    \o <<Node(tag, NoText, [i \in 1..Len(kids) |-> i], "")>>

HashOrders == Permutations(1..MaxDefaults)

InitLoad ==
    /\ \E cls \in LoadClasses : \E kids \in RawKids(cls) :
          /\ heap = RawHeap(Catalog(cls).tag, kids)
          /\ elem = Len(kids) + 1
    /\ root = 0
    /\ warnings = <<>>
    /\ hashOrder \in HashOrders
    /\ file = <<>>
    /\ last = Op("init", "ok", <<>>, 0)

ConstructNode ==
    /\ root = 0
    /\ \E cls \in LoadClasses :
          /\ Catalog(cls).tag = heap[elem].tag
          /\ LET st == Construct(St(heap, warnings, file), cls, elem)
             IN /\ heap' = st.heap
                /\ warnings' = st.warnings
                /\ root' = st.ret
                /\ last' = Op("construct", Outcome(st), <<cls>>, 1)
    /\ UNCHANGED <<elem, hashOrder, file>>

Load ==
    /\ root # 0
    /\ last.loads < 1 + MaxLoads
    /\ LET st == load(St(heap, warnings, file), root)
       IN /\ heap' = st.heap
          /\ warnings' = st.warnings
          /\ last' = Op("load", "ok", <<>>, last.loads + 1)
    /\ UNCHANGED <<elem, root, hashOrder, file>>

NextLoad == ConstructNode \/ Load

SpecLoad == InitLoad /\ [][NextLoad]_vars

----------------------------------------------------------------------------
(* Properties of load() on one node *)

Me == heap[root]
Input == heap[elem].children
InputSet == SeqToSet(Input)
IsValidChild(c) == heap[c].tag \in valid_keys(Me.cls)
Synthesized(c) == c \notin InputSet

\* the warnings load() recorded for the node under study
LoadKinds == {"invalid", "default", "expected"}
LoadWarnings == SelectSeq(warnings, LAMBDA w : w.kind \in LoadKinds /\ w.owner = Me.tag)
WarningsAbout(key) ==
    SelectSeq(warnings, LAMBDA w : w.kind \in {"default", "expected"}
                                   /\ w.owner = Me.tag /\ w.tag = key)

\* option keys whose leaf the input element lacks
MissingKeys == {k \in SeqToSet(option_keys(Me.cls)) : find(heap, elem, k) = 0}

\* C2: a load() of an already loaded node changes nothing: same children,
\* same options, no new object, no new warning
C2_LoadIdempotent ==
    [][last'.op = "load" =>
          /\ heap'[root].children = heap[root].children
          /\ heap'[root].options = heap[root].options
          /\ Len(heap') = Len(heap)
          /\ warnings' = warnings]_vars

\* C4: after load() every child of the node has a tag of the valid-key set
C4_Pruned ==
    root # 0 => \A i \in 1..Len(Me.children) : IsValidChild(Me.children[i])

\* C5: the valid children of the input keep their relative order, and every
\* synthesized leaf stands after every child that came from the input
C5_OrderPreserved ==
    root # 0 =>
       /\ SelectSeq(Me.children, LAMBDA c : ~Synthesized(c) /\ IsValidChild(c))
            = SelectSeq(Input, IsValidChild)
       /\ \A i, j \in 1..Len(Me.children) :
             (Synthesized(Me.children[i]) /\ ~Synthesized(Me.children[j])) => j < i

C5_Witness ==
    /\ root # 0
    /\ \E i, j, k \in 1..Len(Input) :
          /\ i < j /\ j < k
          /\ IsValidChild(Input[i]) /\ ~IsValidChild(Input[j]) /\ IsValidChild(Input[k])
    /\ \E i \in 1..Len(Me.children) : Synthesized(Me.children[i])

\* C6: when no option leaf is missing, load() records exactly one warning
\* per child of the input whose tag is outside the valid-key set
C6_WarningCount ==
    (last.op = "construct" /\ MissingKeys = {}) =>
        Len(LoadWarnings) = Len(SelectSeq(Input, LAMBDA c : ~IsValidChild(c)))

\* C7: an option whose leaf the input lacks gets the schema default (the
\* empty string without one), with exactly one warning about that option
C7_DefaultFill ==
    last.op = "construct" =>
       \A k \in MissingKeys :
          /\ OptionValue(Me, k) =
                (IF HasKey(Catalog(Me.cls).default_opts, k)
                 THEN Lookup(Catalog(Me.cls).default_opts, k) ELSE EmptyText)
          /\ Len(WarningsAbout(k)) = 1

C7_Witness ==
    /\ last.op = "construct"
    /\ \E k \in MissingKeys :
          /\ HasKey(Catalog(Me.cls).default_opts, k)
          /\ OptionValue(Me, k) # EmptyText
    /\ \E i \in 1..Len(Input) : ~IsValidChild(Input[i])

\* the keys of an options map, in order
KeysOf(opts) == [i \in 1..Len(opts) |-> opts[i].key]

\* C13: after construction the options map of the node holds exactly the
\* declared option keys of its class, each once, and every value is a string
\* (possibly empty), never None.
C13_OptionKeys ==
    (last.op = "construct" /\ last.how = "ok") =>
        /\ SeqToSet(KeysOf(Me.options)) = SeqToSet(option_keys(Me.cls))
        /\ Len(Me.options) = Cardinality(SeqToSet(option_keys(Me.cls)))
        /\ \A i \in 1..Len(Me.options) : IsStr(Me.options[i].val)

\* C13 witness: the element held an option leaf without text and lacked
\* another option leaf
C13_Witness ==
    /\ last.op = "construct"
    /\ last.how = "ok"
    /\ MissingKeys # {}
    /\ \E i \in 1..Len(Input) :
          /\ heap[Input[i]].tag \in SeqToSet(option_keys(Me.cls))
          /\ heap[Input[i]].text = NoText
          /\ find(heap, elem, heap[Input[i]].tag) = Input[i]

----------------------------------------------------------------------------
(* A Document: a project file is parsed (or a default Project is built),   *)
(* then the commands and the API are used on it.                           *)

\* operations on one Document after its construction
MaxOps == 2
\* Target elements of the input file
MaxInputTargets == 2

Leaf(tag, text) == Tree(tag, text, <<>>)
Elem(tag, kids) == Tree(tag, NoText, kids)

FileElem(path) ==
    Elem("File", <<Leaf("FileName", basename(path)), Leaf("FileType", <<"1">>),
                   Leaf("FilePath", path)>>)

GroupElem(name, paths) ==
    Elem("Group", <<Leaf("GroupName", name),
                    Elem("Files", [i \in 1..Len(paths) |-> FileElem(paths[i])])>>)

TargetElem(name, groups) ==
    Elem("Target", <<Leaf("TargetName", name), Elem("Groups", groups)>>)

ProjectElem(targets) == Elem("Project", <<Elem("Targets", targets)>>)

InputGroup1 == GroupElem(<<"G">>, << <<".", "/", "a", ".", "c">> >>)
InputGroup2 == GroupElem(<<"H">>, <<>>)
InputGroupLists ==
    { <<>>, <<InputGroup1>>, <<InputGroup1, InputGroup2>>, <<InputGroup1, InputGroup1>> }
InputNames == { <<"A">>, <<"B">> }
\* the first Target of a document has groups, the Targets after it have none
InputDocs ==
    {ProjectElem([i \in 1..Len(ns) |-> TargetElem(ns[i], IF i = 1 THEN gs ELSE <<>>)]) :
        ns \in UNION {[1..n -> InputNames] : n \in 0..MaxInputTargets},
        gs \in InputGroupLists}

\* hand-edited files: a root that is not <Project>, and an unknown element
\* inside <Files>
HandEditedDocs ==
    { Elem("Proj", <<Leaf("X", NoText), Elem("Targets", <<>>)>>),
      ProjectElem(<<TargetElem(<<"A">>,
          <<Elem("Group", <<Leaf("GroupName", <<"G">>),
                            Elem("Files", <<Leaf("X", NoText),
                                            FileElem(<<".", "/", "a", ".", "c">>)>>)>>)>>)>>) }

\* args["group"] of the commands and the paths handed to add_file / add_src
TargetArgs == { <<"A">>, <<"C">>, <<"0">> }
GroupArgs ==
    { <<"A", "/", "G">>, <<"C", "/", "G">>, <<"0", "/", "H">>, <<"A">>, <<"C">> }
Paths == { <<"a", ".", "c">>, <<".", "/", "a", ".", "c">>, <<"x", "&", "y", ".", "s">> }

InitDoc ==
    /\ \/ heap = <<>> /\ elem = 0
       \/ \E doc \in InputDocs \cup HandEditedDocs :
             heap = alloc_tree(<<>>, doc) /\ elem = Len(heap)
    /\ root = 0
    /\ warnings = <<>>
    /\ hashOrder \in HashOrders
    /\ file = <<>>
    /\ last = Op("init", "ok", <<>>, 0)

Ops == last.loads

Do(st, op, args) ==
    /\ heap' = st.heap
    /\ warnings' = st.warnings
    /\ file' = st.file
    /\ last' = Op(op, Outcome(st), args, Ops + 1)
    /\ UNCHANGED <<elem, root, hashOrder>>

\* proj = UVProject(tree.getroot()), or UVProject(None)
NewProject ==
    /\ root = 0
    /\ last.op = "init"
    /\ LET st == Construct(St(heap, warnings, file), "Project", elem)
       IN /\ heap' = st.heap
          /\ warnings' = st.warnings
          /\ root' = IF st.err THEN 0 ELSE st.ret
          /\ last' = Op("construct", Outcome(st), <<>>, 0)
    /\ UNCHANGED <<elem, hashOrder, file>>

Ready == root # 0 /\ Ops < MaxOps

AddTarget ==
    /\ Ready
    /\ \E arg \in TargetArgs :
          Do(Manipulator_add_target(St(heap, warnings, file), root, arg),
             "add_target", <<arg>>)

AddGroup ==
    /\ Ready
    /\ \E arg \in GroupArgs :
          Do(Manipulator_add_group(St(heap, warnings, file), root, arg), "add_group", <<arg>>)

AddSrc ==
    /\ Ready
    /\ \E arg \in GroupArgs, ptrn \in Paths :
          Do(Manipulator_add_src(St(heap, warnings, file), root, arg, ptrn),
             "add_src", <<arg, ptrn>>)

\* the names handed to the API
ApiNames == { <<"A">>, <<"G">> }

\* targ = UVTarget(); targ.name = nm; proj.targets.add_target(targ)
ApiAddTarget ==
    /\ Ready
    /\ \E nm \in ApiNames :
          Do(add_target_new(Construct(St(heap, warnings, file), "Target", 0), root, nm),
             "api_add_target", <<nm>>)

\* g = UVGroup(); g.name = nm; targ.groups.add_group(g)
ApiAddGroup ==
    /\ Ready
    /\ \E t \in SeqToSet(heap[targets_of(heap, root)].subconfigs), nm \in ApiNames :
          Do(add_group_new(Construct(St(heap, warnings, file), "Group", 0), t, nm),
             "api_add_group", <<t, nm>>)

\* the Files nodes of the Document
AllFiles ==
    {files_of(heap, g) :
        g \in UNION {SeqToSet(heap[groups_of(heap, t)].subconfigs) :
                        t \in SeqToSet(heap[targets_of(heap, root)].subconfigs)}}

\* group.files.add_file(fn) on a group of the Document
AddFile ==
    /\ Ready
    /\ \E fs \in AllFiles, fn \in Paths :
          Do(add_file(St(heap, warnings, file), fs, fn), "add_file", <<fs, fn>>)

\* proj.link()
Link ==
    /\ Ready
    /\ Do([St(heap, warnings, file) EXCEPT !.heap = link(heap, root, TRUE), !.ret = root],
          "link", <<>>)

NextDoc ==
    \/ NewProject
    \/ AddTarget
    \/ AddGroup
    \/ AddSrc
    \/ ApiAddTarget
    \/ ApiAddGroup
    \/ AddFile
    \/ Link

SpecDoc == InitDoc /\ [][NextDoc]_vars

----------------------------------------------------------------------------
(* Properties of a Document *)

Distinct(seq) == \A i, j \in 1..Len(seq) : i # j => seq[i] # seq[j]

\* the Target objects of the Document, the Group objects of a Target, the
\* File objects of a Group
TargetsOf(h, proj) == h[targets_of(h, proj)].subconfigs
GroupsOf(h, targ) == h[groups_of(h, targ)].subconfigs
FilesOf(h, group) == h[files_of(h, group)].subconfigs

NamesOf(h, ids, key) == [i \in 1..Len(ids) |-> OptionValue(h[ids[i]], key)]

AsMap(opts) == {<<opts[i].key, opts[i].val>> : i \in 1..Len(opts)}

\* the option maps of two subconfig trees agree node by node
RECURSIVE SameOptions(_, _, _, _)
SameOptions(h1, a, h2, b) ==
    /\ AsMap(h1[a].options) = AsMap(h2[b].options)
    /\ Len(h1[a].subconfigs) = Len(h2[b].subconfigs)
    /\ \A i \in 1..Len(h1[a].subconfigs) :
          SameOptions(h1, h1[a].subconfigs[i], h2, h2[b].subconfigs[i])

\* UVProject(ET.fromstring(text).getroot()) on a fresh heap
Reparsed(t) == Construct(St(alloc_tree(<<>>, t.tree), <<>>, <<>>), "Project",
                         Len(alloc_tree(<<>>, t.tree)))

RoundTrips(h, proj) ==
    /\ fromstring(UVProject_repr(h, proj)).ok
    /\ ~Reparsed(fromstring(UVProject_repr(h, proj))).err
    /\ SameOptions(h, proj, Reparsed(fromstring(UVProject_repr(h, proj))).heap,
                   Reparsed(fromstring(UVProject_repr(h, proj))).ret)

MutationOps == {"construct", "api_add_target", "api_add_group", "add_file"}

\* C1: a Document built from a parsed or default Project by add_target,
\* add_group and add_file is parsed back from its serialization with the same
\* option map at every node of the subconfig tree.
C1_RoundTrip ==
    (root # 0 /\ last.op \in MutationOps /\ last.how = "ok") => RoundTrips(heap, root)

\* C3: link() on a Document that was just linked (by the constructor or by a
\* link() call) leaves the child list of every node as it was.
C3_LinkIdempotent ==
    [][(last.op \in {"construct", "link"} /\ last'.op = "link")
          => \A n \in DOMAIN heap : heap'[n].children = heap[n].children]_vars

\* the target list, the group list of every target, and their names
NameLists(h, proj) ==
    [targets |-> TargetsOf(h, proj),
     target_names |-> target_names(h, proj),
     names |-> NamesOf(h, TargetsOf(h, proj), "TargetName"),
     groups |-> [i \in 1..Len(TargetsOf(h, proj)) |->
                    [ids |-> GroupsOf(h, TargetsOf(h, proj)[i]),
                     group_names |-> group_names(h, TargetsOf(h, proj)[i]),
                     names |-> NamesOf(h, GroupsOf(h, TargetsOf(h, proj)[i]), "GroupName")]]]

\* the step is an add_target / add_group call whose name is already taken
CommandCollides(p) ==
    /\ ~p.err
    /\ p.target \in SeqToSet(target_names(heap, root))
    /\ last'.op = "add_group" =>
          p.group \in SeqToSet(group_names(heap, target_by_name(heap, root, p.target)))

Collides ==
    \/ /\ last'.op \in {"add_target", "add_group"}
       /\ CommandCollides(parse_targ_group(heap, root, last'.args[1]))
    \/ /\ last'.op = "api_add_target"
       /\ last'.args[1] \in SeqToSet(target_names(heap, root))
    \/ /\ last'.op = "api_add_group"
       /\ last'.args[2] \in SeqToSet(group_names(heap, last'.args[1]))

\* C8: add_target with a name among the Document's targets, and add_group with
\* a name among the target's groups, do not succeed, the caller is notified (an
\* exception or a warning), and the target list and every group list are
\* afterwards what they were before the call.
C8_CollisionRejected ==
    [][Collides =>
          /\ last'.how # "ok"
          /\ (last'.how = "raised" \/ Len(warnings') > Len(warnings))
          /\ NameLists(heap', root) = NameLists(heap, root)]_vars

\* C8 witness: Targets.add_target was called with a target whose name is taken
\* and raised
C8_Witness ==
    /\ last.op = "api_add_target"
    /\ last.how = "raised"
    /\ last.args[1] \in SeqToSet(target_names(heap, root))

\* C9: in every Document state the names of the targets are pairwise distinct
\* and, within each target, the names of its groups are pairwise distinct.
C9_NamesDistinct ==
    root # 0 =>
        /\ Distinct(NamesOf(heap, TargetsOf(heap, root), "TargetName"))
        /\ \A t \in SeqToSet(TargetsOf(heap, root)) :
              Distinct(NamesOf(heap, GroupsOf(heap, t), "GroupName"))

\* os.path.normpath of a relative path
normpath(path) == join(components(path))

\* C10: no two File entries of a group resolve to the same normalized path.
C10_FilesDistinct ==
    root # 0 =>
        \A t \in SeqToSet(TargetsOf(heap, root)) :
            \A g \in SeqToSet(GroupsOf(heap, t)) :
                Distinct([i \in 1..Len(FilesOf(heap, g)) |->
                             normpath(OptionValue(heap[FilesOf(heap, g)[i]], "FilePath"))])

----------------------------------------------------------------------------
(* The files of one group: a default Files object, then add_file calls.    *)

\* add_file calls on the Files object
MaxFiles == 3

FilePaths ==
    { <<"src", "/", "main", ".", "c">>, <<"src", "/", "start", ".", "s">>,
      <<"src", "/", "x", ".", "xyz">>, <<"/", "abs", ".", "c">> }

\* files = UVGroup.Files()
InitFiles ==
    /\ heap = Construct(St(<<>>, <<>>, <<>>), "Files", 0).heap
    /\ warnings = Construct(St(<<>>, <<>>, <<>>), "Files", 0).warnings
    /\ root = Construct(St(<<>>, <<>>, <<>>), "Files", 0).ret
    /\ elem = 0
    /\ hashOrder \in HashOrders
    /\ file = <<>>
    /\ last = Op("construct", "ok", <<>>, 0)

\* files.add_file(fn)
FilesAddFile ==
    /\ Ops < MaxFiles
    /\ \E fn \in FilePaths :
          Do(add_file(St(heap, warnings, file), root, fn), "add_file", <<root, fn>>)

NextFiles == FilesAddFile

SpecFiles == InitFiles /\ [][NextFiles]_vars

----------------------------------------------------------------------------
(* Properties of add_file *)

\* the class of a path by its extension: ".c", ".s", or unrecognized
ExtClass(path) ==
    IF rpartition_tail(path, ".") = <<"c">> THEN "c"
    ELSE IF rpartition_tail(path, ".") = <<"s">> THEN "s"
    ELSE "other"

\* C11: the FileType codes add_file derives for a ".c" path, a ".s" path and
\* a path of unrecognized extension are pairwise different.
C11_FileTypes ==
    \A f, g \in SeqToSet(heap[root].subconfigs) :
        ExtClass(OptionValue(heap[f], "FilePath")) # ExtClass(OptionValue(heap[g], "FilePath"))
            => OptionValue(heap[f], "FileType") # OptionValue(heap[g], "FileType")

\* C19: add_file with an absolute path raises and leaves the file list as it
\* was; with a relative path p it appends exactly one File, as the last of the
\* list, with FilePath = p and FileName = the base name of p.
C19_AddFile ==
    [][last'.op = "add_file" =>
          IF isabs(last'.args[2])
          THEN /\ last'.how = "raised"
               /\ heap'[root].subconfigs = heap[root].subconfigs
          ELSE /\ last'.how = "ok"
               /\ Len(heap'[root].subconfigs) = Len(heap[root].subconfigs) + 1
               /\ SubSeq(heap'[root].subconfigs, 1, Len(heap[root].subconfigs))
                     = heap[root].subconfigs
               /\ LET f == heap'[heap'[root].subconfigs[Len(heap'[root].subconfigs)]]
                  IN /\ f.cls = "File"
                     /\ OptionValue(f, "FilePath") = last'.args[2]
                     /\ OptionValue(f, "FileName") = basename(last'.args[2])]_vars

\* C19 witness: an absolute path was rejected on a list that holds a file
C19_Witness ==
    /\ last.op = "add_file"
    /\ last.how = "raised"
    /\ isabs(last.args[2])
    /\ Len(heap[root].subconfigs) > 0

----------------------------------------------------------------------------
(* Properties of the construction of a Document *)

\* the nodes reachable from a node through subconfigs
RECURSIVE Reachable(_, _)
Reachable(h, id) ==
    {id} \cup UNION {Reachable(h, h[id].subconfigs[i]) : i \in 1..Len(h[id].subconfigs)}

\* C14: in a Document parsed from any input, every child tag and every option
\* key of every node reachable from the root is in the node's valid-key set.
C14_ValidKeys ==
    (last.op = "construct" /\ last.how = "ok") =>
        \A n \in Reachable(heap, root) :
            /\ SeqToSet(TagsOf(heap, heap[n].children)) \subseteq valid_keys(heap[n].cls)
            /\ SeqToSet(KeysOf(heap[n].options)) \subseteq valid_keys(heap[n].cls)

\* C12: UVProject(root) on a root whose tag is not "Project" raises, and it
\* raises with nothing pruned, synthesized or extracted and no subconfig
\* built: the only new object is the copy of the root, holding the same
\* children, no options and no subconfigs, and no warning was recorded.
C12_RootMismatch ==
    [][(last'.op = "construct" /\ elem # 0 /\ heap[elem].tag # "Project") =>
          /\ last'.how = "raised"
          /\ root' = 0
          /\ warnings' = warnings
          /\ Len(heap') = Len(heap) + 1
          /\ \A n \in DOMAIN heap : heap'[n] = heap[n]
          /\ heap'[Len(heap')].children = heap[elem].children
          /\ heap'[Len(heap')].options = <<>>
          /\ heap'[Len(heap')].subconfigs = <<>>]_vars

\* C12 witness: a construction was refused on a root that is not <Project>
\* and holds an unknown child and a <Targets> element
C12_Witness ==
    /\ last.op = "construct"
    /\ last.how = "raised"
    /\ heap[elem].tag # "Project"
    /\ {"X", "Targets"} \subseteq SeqToSet(TagsOf(heap, heap[elem].children))

----------------------------------------------------------------------------
(* Editing a Document through its objects: option and name assignments,    *)
(* sync_options(), link(), the add calls, and write().                     *)

EditDocs ==
    { ProjectElem(<<TargetElem(<<"A">>, <<InputGroup1>>)>>) }

InitEdit ==
    /\ \/ heap = <<>> /\ elem = 0
       \/ \E doc \in EditDocs : heap = alloc_tree(<<>>, doc) /\ elem = Len(heap)
    /\ root = 0
    /\ warnings = <<>>
    /\ hashOrder \in HashOrders
    /\ file = <<>>
    /\ last = Op("init", "ok", <<>>, 0)

\* the Target and Group objects of the Document
NamedNodes ==
    SeqToSet(heap[targets_of(heap, root)].subconfigs)
    \cup UNION {SeqToSet(heap[groups_of(heap, t)].subconfigs) :
                    t \in SeqToSet(heap[targets_of(heap, root)].subconfigs)}

NameKey(n) == Catalog(heap[n].cls).tag \o "Name"

EditNames == { <<"N">>, <<"0">> }
EditValues == { <<"v">> }

\* targ.name = val, group.name = val
SetName ==
    /\ Ready
    /\ \E n \in NamedNodes, val \in EditNames :
          Do([set_name(St(heap, warnings, file), n, NameKey(n), val) EXCEPT !.ret = n],
             "set_name", <<n, val>>)

\* the nodes reachable from the root through subconfigs
RECURSIVE Subtree(_, _)
Subtree(h, id) ==
    {id} \cup UNION {Subtree(h, h[id].subconfigs[i]) : i \in 1..Len(h[id].subconfigs)}

\* node.options[key] = val
AssignOption ==
    /\ Ready
    /\ \E n \in Subtree(heap, root), val \in EditValues :
          \E i \in 1..Len(heap[n].options) :
             Do([St(heap, warnings, file) EXCEPT
                    !.heap[n].options = SetOption(@, heap[n].options[i].key, val),
                    !.ret = n],
                "assign", <<n, heap[n].options[i].key, val>>)

\* proj.sync_options()
SyncOptions ==
    /\ Ready
    /\ Do([sync_options(St(heap, warnings, file), root, TRUE) EXCEPT !.ret = root],
          "sync_options", <<>>)

\* proj.write(fn)
Write ==
    /\ Ready
    /\ Do([write(St(heap, warnings, file), root) EXCEPT !.ret = root], "write", <<>>)

\* node.link(recurse=False) on a node of the Document
LinkShallow ==
    /\ Ready
    /\ \E n \in Subtree(heap, root) :
          Do([St(heap, warnings, file) EXCEPT !.heap = link(heap, n, FALSE), !.ret = n],
             "link_shallow", <<n>>)

NextEdit ==
    \/ NewProject
    \/ SetName
    \/ AssignOption
    \/ SyncOptions
    \/ Link
    \/ LinkShallow
    \/ ApiAddTarget
    \/ ApiAddGroup
    \/ AddFile
    \/ Write

SpecEdit == InitEdit /\ [][NextEdit]_vars

----------------------------------------------------------------------------
(* Properties of write() *)

RECURSIVE Concat(_)
Concat(seqs) == IF seqs = <<>> THEN <<>> ELSE Head(seqs) \o Concat(Tail(seqs))

\* what the claim expects for a node: its current options, then its current
\* subconfigs, each in order
RECURSIVE ExpectedNode(_, _)
ExpectedNode(h, id) ==
    Concat([i \in 1..Len(h[id].options) |->
               <<"<", h[id].options[i].key, ">">> \o h[id].options[i].val
               \o <<"<", "/", h[id].options[i].key, ">">>])
    \o Concat([i \in 1..Len(h[id].subconfigs) |->
                  <<"<", h[h[id].subconfigs[i]].tag, ">">>
                  \o ExpectedNode(h, h[id].subconfigs[i])
                  \o <<"<", "/", h[h[id].subconfigs[i]].tag, ">">>])

ExpectedText(h, id) ==
    XmlDeclaration \o ProjectOpenTag \o ExpectedNode(h, id) \o <<"<", "/", "Project", ">">>

\* some reachable node has a child leaf whose text is not the option's value
Stale(h, id) ==
    \E n \in Subtree(h, id) : \E i \in 1..Len(h[n].options) :
        /\ find(h, n, h[n].options[i].key) # 0
        /\ h[find(h, n, h[n].options[i].key)].text # h[n].options[i].val

\* C15: whatever was assigned or added, synced or linked, the text of write()
\* holds for every node reachable through subconfigs its current option
\* values and its current subconfigs in order, never the text of a child.
C15_WriteCurrent ==
    root # 0 =>
        /\ UVProject_repr(heap, root) = ExpectedText(heap, root)
        /\ last.op = "write" => file = ExpectedText(heap, root)

\* C15 witness: write() ran while a child leaf held a stale value
C15_Witness ==
    /\ root # 0
    /\ last.op = "write"
    /\ Stale(heap, root)
    /\ file # <<>>

----------------------------------------------------------------------------
(* Properties of add_target and add_group *)

Last(seq) == seq[Len(seq)]

\* the name a call gives to its new target
NewTargetName ==
    IF last'.op = "add_target" THEN parse_targ_group(heap, root, last'.args[1]).target
    ELSE last'.args[1]

\* C16: after a successful add_target(name) the target list is the previous
\* list followed by one new Target whose TargetName is name, whose other
\* options are the schema defaults and which has no groups; the targets that
\* existed keep their names and positions.
C16_AddTarget ==
    [][(last'.op \in {"add_target", "api_add_target"} /\ last'.how = "ok") =>
          /\ Len(TargetsOf(heap', root)) = Len(TargetsOf(heap, root)) + 1
          /\ SubSeq(TargetsOf(heap', root), 1, Len(TargetsOf(heap, root)))
                = TargetsOf(heap, root)
          /\ Last(TargetsOf(heap', root)) \notin DOMAIN heap
          /\ heap'[Last(TargetsOf(heap', root))].cls = "Target"
          /\ OptionValue(heap'[Last(TargetsOf(heap', root))], "TargetName") = NewTargetName
          /\ \A k \in SeqToSet(option_keys("Target")) \ {"TargetName"} :
                OptionValue(heap'[Last(TargetsOf(heap', root))], k)
                   = Lookup(Catalog("Target").default_opts, k)
          /\ GroupsOf(heap', Last(TargetsOf(heap', root))) = <<>>
          /\ NamesOf(heap', TargetsOf(heap, root), "TargetName")
                = NamesOf(heap, TargetsOf(heap, root), "TargetName")
          /\ Last(target_names(heap', root)) = NewTargetName]_vars

\* C16 witness: the add_target command added a target to a Document that had
\* two
C16_Witness ==
    /\ last.op = "add_target"
    /\ last.how = "ok"
    /\ Len(TargetsOf(heap, root)) = 3
    /\ OptionValue(heap[Last(TargetsOf(heap, root))], "TargetName") = last.args[1]

\* C17: after a successful add_target the Document is linked again: the new
\* Target is a child of the Targets node, and its own subconfigs are among
\* its children.
C17_AddTargetLinks ==
    (last.op \in {"add_target", "api_add_target"} /\ last.how = "ok") =>
        /\ Last(TargetsOf(heap, root)) \in SeqToSet(heap[targets_of(heap, root)].children)
        /\ SeqToSet(heap[Last(TargetsOf(heap, root))].subconfigs)
              \subseteq SeqToSet(heap[Last(TargetsOf(heap, root))].children)

\* the target an add_group call refers to, in the state after the call
GroupTarget ==
    IF last'.op = "add_group"
    THEN target_by_name(heap', root, parse_targ_group(heap, root, last'.args[1]).target)
    ELSE last'.args[1]

NewGroupName ==
    IF last'.op = "add_group" THEN parse_targ_group(heap, root, last'.args[1]).group
    ELSE last'.args[2]

\* C18: after a successful add_group(target_ref, name) the referenced target
\* exists (created with that name if it was absent), its group list is the
\* previous list followed by one new Group named name with no files, and the
\* group lists of the other targets are unchanged.
C18_AddGroup ==
    [][(last'.op \in {"add_group", "api_add_group"} /\ last'.how = "ok") =>
          /\ GroupTarget \in SeqToSet(TargetsOf(heap', root))
          /\ last'.op = "add_group" =>
                /\ OptionValue(heap'[GroupTarget], "TargetName")
                      = parse_targ_group(heap, root, last'.args[1]).target
                /\ GroupTarget \notin DOMAIN heap =>
                      TargetsOf(heap', root) = Append(TargetsOf(heap, root), GroupTarget)
                /\ GroupTarget \in DOMAIN heap =>
                      TargetsOf(heap', root) = TargetsOf(heap, root)
          /\ Len(GroupsOf(heap', GroupTarget)) > 0
          /\ SubSeq(GroupsOf(heap', GroupTarget), 1, Len(GroupsOf(heap', GroupTarget)) - 1)
                = (IF GroupTarget \in DOMAIN heap THEN GroupsOf(heap, GroupTarget) ELSE <<>>)
          /\ Last(GroupsOf(heap', GroupTarget)) \notin DOMAIN heap
          /\ heap'[Last(GroupsOf(heap', GroupTarget))].cls = "Group"
          /\ OptionValue(heap'[Last(GroupsOf(heap', GroupTarget))], "GroupName") = NewGroupName
          /\ FilesOf(heap', Last(GroupsOf(heap', GroupTarget))) = <<>>
          /\ \A t \in SeqToSet(TargetsOf(heap, root)) \ {GroupTarget} :
                GroupsOf(heap', t) = GroupsOf(heap, t)]_vars

\* C18 witness: the add_group command created its target and added the group
\* while another target had groups
C18_Witness ==
    /\ last.op = "add_group"
    /\ last.how = "ok"
    /\ last.args[1] = <<"C", "/", "G">>
    /\ Len(TargetsOf(heap, root)) >= 2
    /\ OptionValue(heap[Last(TargetsOf(heap, root))], "TargetName") = <<"C">>
    /\ Len(GroupsOf(heap, Last(TargetsOf(heap, root)))) = 1
    /\ Len(GroupsOf(heap, TargetsOf(heap, root)[1])) >= 1

\* the step is an add_target / add_group command whose target or group name
\* is not an identifier
InvalidName(p) ==
    /\ ~p.err
    /\ \/ ~isidentifier(p.target)
       \/ last'.op = "add_group" /\ ~isidentifier(p.group)

\* C20: add_target or add_group with a name that is not an identifier (the
\* empty group name included) raises before any change: the Document has the
\* same targets and the same groups afterwards, also when the target named by
\* add_group does not exist yet.
C20_InvalidName ==
    [][(/\ last'.op \in {"add_target", "add_group"}
        /\ InvalidName(parse_targ_group(heap, root, last'.args[1]))) =>
          /\ last'.how = "raised"
          /\ NameLists(heap', root) = NameLists(heap, root)]_vars

----------------------------------------------------------------------------
(* Properties of sync_options and link *)

\* every option of node n has a first child leaf holding the option's value
Synced(h, n) ==
    \A i \in 1..Len(h[n].options) :
        /\ find(h, n, h[n].options[i].key) # 0
        /\ h[find(h, n, h[n].options[i].key)].text =
              (IF h[n].options[i].val = NoText THEN EmptyText ELSE h[n].options[i].val)

\* C21: after proj.sync_options(), every node reachable through subconfigs
\* has, for every option key, a child with that tag whose first occurrence
\* holds the option's current value ("" for None), and no options map of any
\* node has changed.
C21_SyncPostcondition ==
    [][last'.op = "sync_options" =>
          /\ last'.how = "ok"
          /\ \A n \in Subtree(heap', root) : Synced(heap', n)
          /\ \A n \in 1..Len(heap) : heap'[n].options = heap[n].options]_vars

\* C21 witness: sync_options() ran on a Document holding a node without the
\* leaves of its options (added since the last link) and created them
C21_Witness ==
    /\ last.op = "sync_options"
    /\ last.loads = MaxOps
    /\ \E i \in 1..Len(warnings) : warnings[i].kind = "adding"
    /\ \A n \in Subtree(heap, root) : Synced(heap, n)

\* the children of n with a subconfig tag are n's subconfigs with that tag,
\* one child each, in the order of the raw children they were built from
Owns(h, n) ==
    \A tag \in SeqToSet(TagsOf(h, h[n].subconfigs)) :
        iterfind(h, n, tag) = SelectSeq(h[n].subconfigs, LAMBDA s : h[s].tag = tag)

\* C22: after link() on a parsed Document (the link() that ends UVProject's
\* constructor, or proj.link() right after it), every node's subconfigs occur
\* exactly once among its children, at the positions of the raw children
\* they were built from, and no child with a subconfig tag is a raw element,
\* also where several subconfigs share a tag.
C22_StrictOwnership ==
    (/\ root # 0
     /\ elem # 0
     /\ \/ last.op = "construct"
        \/ last.op = "link" /\ last.loads = 1)
    => \A n \in Subtree(heap, root) : Owns(heap, n)

\* C23: node.link(recurse=False) leaves every subconfig of the node among
\* the node's children, appending the ones that were not there; recurse only
\* decides whether the subconfigs are linked in turn.
C23_ShallowLinkAppends ==
    [][last'.op = "link_shallow" =>
          \A i \in 1..Len(heap'[last'.args[1]].subconfigs) :
              heap'[last'.args[1]].subconfigs[i]
                  \in SeqToSet(heap'[last'.args[1]].children)]_vars

----------------------------------------------------------------------------
(* More properties of load() on one node *)

\* the option keys that several children of the input element carry
DuplicateKeys ==
    {k \in SeqToSet(option_keys(Me.cls)) : Len(iterfind(heap, elem, k)) > 1}

\* C24: an option whose tag several children of the element carry gets the
\* text of the first of them in document order ("" when it has no text);
\* construction ends normally and no warning reports the tag as invalid or
\* as an expected option that was not found.
C24_FirstMatchWins ==
    last.op = "construct" =>
        \A k \in DuplicateKeys :
            /\ last.how = "ok"
            /\ OptionValue(Me, k) =
                  (IF IsStr(heap[iterfind(heap, elem, k)[1]].text)
                   THEN heap[iterfind(heap, elem, k)[1]].text ELSE EmptyText)
            /\ \A i \in 1..Len(warnings) :
                  ~(warnings[i].tag = k /\ warnings[i].kind \in {"invalid", "expected"})

\* C24 witness: two children with the same option tag and different texts
C24_Witness ==
    /\ last.op = "construct"
    /\ \E k \in DuplicateKeys :
          /\ heap[iterfind(heap, elem, k)[1]].text # heap[iterfind(heap, elem, k)[2]].text
          /\ OptionValue(Me, k) = heap[iterfind(heap, elem, k)[1]].text

\* the text the claim expects for node id: the options in declared order,
\* then the subconfigs in the order of the subconfigs list
DeclaredText(h, id) ==
    OpenTag(h[id].tag)
    \o Concat([i \in 1..Len(option_keys(h[id].cls)) |->
                  OpenTag(option_keys(h[id].cls)[i])
                  \o (IF IsStr(OptionValue(h[id], option_keys(h[id].cls)[i]))
                      THEN OptionValue(h[id], option_keys(h[id].cls)[i]) ELSE <<>>)
                  \o CloseTag(option_keys(h[id].cls)[i])])
    \o Concat([i \in 1..Len(h[id].subconfigs) |-> repr(h, h[id].subconfigs[i], TRUE)])
    \o CloseTag(h[id].tag)

\* C25: after load() the keys of the options map stand in the declared order
\* of the class whatever the order of the leaves in the element, the
\* subconfigs stand in the order the class lists them, and the serialization
\* is the opening tag, the options in that order, the subconfigs in that
\* order, the closing tag.
C25_DeclaredOrder ==
    (root # 0 /\ last.how = "ok") =>
        /\ KeysOf(Me.options) = option_keys(Me.cls)
        /\ TagsOf(heap, Me.subconfigs) =
              [i \in 1..Len(Catalog(Me.cls).single) |-> Catalog(Me.cls).single[i].tag]
        /\ repr(heap, root, TRUE) = DeclaredText(heap, root)

\* C25 witness: the element held two option leaves in the order opposite to
\* the declared one, with different texts
C25_Witness ==
    /\ root # 0
    /\ last.how = "ok"
    /\ \E i, j \in 1..Len(Input) : \E a, b \in 1..Len(option_keys(Me.cls)) :
          /\ i < j /\ b < a
          /\ heap[Input[i]].tag = option_keys(Me.cls)[a]
          /\ heap[Input[j]].tag = option_keys(Me.cls)[b]
          /\ IsStr(heap[Input[i]].text) /\ IsStr(heap[Input[j]].text)
          /\ heap[Input[i]].text # heap[Input[j]].text
          /\ OptionValue(Me, option_keys(Me.cls)[a]) # OptionValue(Me, option_keys(Me.cls)[b])

----------------------------------------------------------------------------
(* The same element loaded in several runs of the program.  Every run is a *)
(* new interpreter process, with its own hash seed for str, and builds the *)
(* node from the element as it was read.                                   *)

MaxRuns == 2

\* one run: Cls(elem) under this process's hash seed; the next process
\* draws its own
Run ==
    /\ last.loads < MaxRuns
    /\ \E cls \in LoadClasses :
          /\ Catalog(cls).tag = heap[elem].tag
          /\ LET st == Construct(St(SubSeq(heap, 1, elem), <<>>, file), cls, elem)
             IN /\ heap' = st.heap
                /\ warnings' = st.warnings
                /\ root' = st.ret
                /\ last' = Op("run", Outcome(st), <<cls>>, last.loads + 1)
    /\ hashOrder' \in HashOrders
    /\ UNCHANGED <<elem, file>>

NextRuns == Run

SpecRuns == InitLoad /\ [][NextRuns]_vars

\* what a run leaves: the child list of the node, in order, and its options
Loaded(h, id) ==
    [ children |-> [i \in 1..Len(h[id].children) |->
                       [tag |-> h[h[id].children[i]].tag,
                        text |-> h[h[id].children[i]].text]],
      options |-> h[id].options ]

\* C26: two runs of load() on equal elements give the same child list in the
\* same order (synthesized default leaves included), the same options map
\* and the same warnings.
C26_Deterministic ==
    [][(last.op = "run" /\ last'.op = "run") =>
          /\ Loaded(heap', root') = Loaded(heap, root)
          /\ warnings' = warnings]_vars

----------------------------------------------------------------------------
(* Properties of the constructors *)

\* C27: constructing a Document calls load() exactly once on every node of a
\* catalog type, and the call comes before the node's subconfigs are built
\* (they are allocated after it).
C27_LoadOnce ==
    (last.op = "construct" /\ root # 0) =>
        \A n \in Subtree(heap, root) :
            /\ Len(heap[n].loads) = 1
            /\ \A i \in 1..Len(heap[n].subconfigs) :
                  heap[n].subconfigs[i] > heap[n].loads[1]

----------------------------------------------------------------------------
(* Properties of the name lists *)

\* C29: whatever was constructed, added or renamed, target_names lists the
\* current TargetName of each target in order, and group_names of each
\* target the current GroupName of each of its groups.
C29_NameListsCurrent ==
    root # 0 =>
        /\ target_names(heap, root) = NamesOf(heap, TargetsOf(heap, root), "TargetName")
        /\ \A i \in 1..Len(TargetsOf(heap, root)) :
              group_names(heap, TargetsOf(heap, root)[i])
                  = NamesOf(heap, GroupsOf(heap, TargetsOf(heap, root)[i]), "GroupName")

----------------------------------------------------------------------------
(* uvstrap.copy_file on a small file system: the path src, the path dst,   *)
(* and the path dst/basename(src) that is the target when dst is a         *)
(* directory.  `file` holds what stands at the three paths.                *)

MaxFileLen == 2
CHUNK_SIZE == 4096

NoFile == [kind |-> "none", data |-> <<>>]
Directory == [kind |-> "dir", data |-> <<>>]
RegularFile(data) == [kind |-> "file", data |-> data]

isfile(f) == f.kind = "file"
isdir(f) == f.kind = "dir"
getsize(f) == Len(f.data)

\* f.read(CHUNK_SIZE) at offset pos
read(data, pos) ==
    SubSeq(data, pos + 1, IF pos + CHUNK_SIZE < Len(data) THEN pos + CHUNK_SIZE ELSE Len(data))

\* the while loop of copy_file; its condition
\* `not fsrc.peek() != b"" and fdst.peek() != b""` reads
\* (fsrc.peek() == b"") and (fdst.peek() != b""); the result is needs_copy
RECURSIVE compare_chunks(_, _, _, _)
compare_chunks(src, dst, ps, pd) ==
    IF ps >= Len(src) /\ pd < Len(dst)
    THEN IF read(src, ps) # read(dst, pd) THEN TRUE
         ELSE compare_chunks(src, dst, ps + Len(read(src, ps)), pd + Len(read(dst, pd)))
    ELSE FALSE

needs_copy(src, target) ==
    IF isfile(target) /\ getsize(src) = getsize(target)
    THEN compare_chunks(src.data, target.data, 0, 0)
    ELSE TRUE

\* run_command(["cp", src, dst]) or the up-to-date message
copy_file_cp(fs, into_dir) ==
    IF ~needs_copy(fs.src, IF into_dir THEN fs.inner ELSE fs.dst)
    THEN [fs |-> fs, how |-> "up-to-date"]
    ELSE [fs |-> IF into_dir THEN [fs EXCEPT !.inner = fs.src] ELSE [fs EXCEPT !.dst = fs.src],
          how |-> "cp"]

\* copy_file(src, dst)
copy_file(fs) ==
    IF ~isfile(fs.src) THEN [fs |-> fs, how |-> "src not exist"]
    ELSE IF ~(isfile(fs.dst) \/ isdir(fs.dst)) THEN [fs |-> fs, how |-> "dst not exist"]
    ELSE copy_file_cp(fs, isdir(fs.dst))

FileData == UNION {[1..n -> {"a", "b"}] : n \in 0..MaxFileLen}
RegularFiles == {RegularFile(d) : d \in FileData}

InitCopy ==
    /\ heap = <<>>
    /\ elem = 0
    /\ root = 0
    /\ warnings = <<>>
    /\ hashOrder = [i \in 1..MaxDefaults |-> i]
    /\ \E s \in RegularFiles \cup {NoFile}, d \in RegularFiles \cup {NoFile, Directory},
          i \in RegularFiles \cup {NoFile} :
          /\ isdir(d) \/ i = NoFile
          /\ file = [src |-> s, dst |-> d, inner |-> i]
    /\ last = Op("init", "ok", <<>>, 0)

CopyFile ==
    /\ last.loads < MaxOps
    /\ file' = copy_file(file).fs
    /\ last' = Op("copy_file", copy_file(file).how, <<>>, last.loads + 1)
    /\ UNCHANGED <<heap, elem, root, warnings, hashOrder>>

NextCopy == CopyFile

SpecCopy == InitCopy /\ [][NextCopy]_vars

\* C30: when src and dst are existing files, copy_file(src, dst) leaves dst
\* with the content of src, and reports it up to date only when the two
\* contents were equal before the call.
C30_CopyMakesEqual ==
    [][(last'.op = "copy_file" /\ isfile(file.src) /\ isfile(file.dst)) =>
          /\ file'.dst.data = file.src.data
          /\ last'.how = "up-to-date" => file.dst.data = file.src.data]_vars

----------------------------------------------------------------------------
(* uvstub.Manipulator.gen_stub and sync_stub.  `file` holds the disk (the  *)
(* absolute paths of the regular files), the snapshot of the Document the  *)
(* command reads (the File paths of a group, the include paths), the `par` *)
(* argument, and the thread pool: the tasks submitted and not yet started  *)
(* and the tasks running.  The program runs in the project directory; the  *)
(* stub directory is the default ./stub.                                   *)

MaxWorkers == 2

ProjectDir == <<"/", "p">>
StubDir == <<"/", "p", "/", "stub">>
Cwd == ProjectDir

\* `token in fn` for the tokens the code looks for ("stub", "uvhelper")
Contains(t, token) == Positions(t, token) # {}

\* os.path.normpath(os.path.abspath(fn)) for paths without ".."
abspath(fn) ==
    <<"/">> \o join(IF isabs(fn) THEN components(fn)
                    ELSE components(Cwd) \o components(fn))

\* os.path.commonpath([dir, fn]) == dir
under(fn, dir) == CommonPrefix(components(dir), components(fn)) = components(dir)

\* os.path.relpath(fn, start) for fn under start
relpath(fn, start) ==
    join(SubSeq(components(fn), Len(components(start)) + 1, Len(components(fn))))

\* Manipulator.fn2stub
fn2stub(fn) == abspath(StubDir \o <<"/">> \o relpath(fn, ProjectDir))

os_path_isfile(disk, fn) == fn # <<>> /\ abspath(fn) \in disk
os_path_isdir(disk, fn) ==
    /\ fn # <<>>
    /\ \E f \in disk : under(f, abspath(fn)) /\ f # abspath(fn)

\* collect_files, the loop `for i in reversed(range(len(files)))` over the
\* File paths of one group: a path is made absolute, popped when it is
\* no file, and then files[i] (the next entry after a pop) is popped when
\* it contains "stub"; err is the IndexError of files[i] past the end
RECURSIVE collect_files(_, _, _)
collect_files(disk, files, i) ==
    IF i = 0 THEN [files |-> files, err |-> FALSE]
    ELSE IF abspath(files[i]) \notin disk
    THEN IF i > Len(files) - 1 THEN [files |-> files, err |-> TRUE]
         ELSE IF Contains(RemoveAt(files, i)[i], "stub")
         THEN collect_files(disk, RemoveAt(RemoveAt(files, i), i), i - 1)
         ELSE collect_files(disk, RemoveAt(files, i), i - 1)
    ELSE IF Contains(abspath(files[i]), "stub")
    THEN collect_files(disk, RemoveAt(files, i), i - 1)
    ELSE collect_files(disk, [files EXCEPT ![i] = abspath(files[i])], i - 1)

\* collect_links, "collect headers": the files an include path contributes
\* (glob(p/**/*, recursive=True) for a directory, p itself for a file)
include_files(disk, p) ==
    IF os_path_isdir(disk, p)
    THEN {f \in disk : /\ under(f, abspath(p))
                       /\ ~Contains(p \o <<"/">> \o relpath(f, abspath(p)), "stub")}
    ELSE IF os_path_isfile(disk, p) /\ ~Contains(p, "stub") THEN {abspath(p)}
    ELSE {}

\* collect_links, "collect markdowns": glob(project_dir/*.md) and the
\* non-recursive glob(project_dir/**/*.md), without "uvhelper" and "stub"
markdowns(disk) ==
    {f \in disk : /\ endswith(f, <<".", "md">>)
                  /\ under(f, ProjectDir)
                  /\ Len(components(f)) - Len(components(ProjectDir)) \in {1, 2}
                  /\ ~Contains(f, "uvhelper")
                  /\ ~Contains(f, "stub")}

Task(kind, src, dst) == [kind |-> kind, src |-> src, dst |-> dst]

\* collect_links: self.links is the markdown links followed by the links of
\* the files under project_dir; each of the two parts is in no fixed order
\* (glob order, set order), so each is kept as a set
collect_links(fs) ==
    IF collect_files(fs.disk, fs.group_files, Len(fs.group_files)).err
    THEN [err |-> TRUE, mds |-> {}, files |-> {}]
    ELSE [err |-> FALSE,
          mds |-> {Task("md", f, fn2stub(f)) : f \in markdowns(fs.disk)},
          files |-> {Task("file", f, fn2stub(f)) :
                        f \in {g \in SeqToSet(collect_files(fs.disk, fs.group_files,
                                                            Len(fs.group_files)).files)
                                     \cup UNION {include_files(fs.disk, p) :
                                                    p \in SeqToSet(fs.include)} :
                                  under(g, ProjectDir)}}]

\* the files on disk, the File paths of the group and the include paths
DiskFiles ==
    { <<"/", "p", "/", "NOTES", ".", "md">>,
      <<"/", "p", "/", "inc", "/", "README", ".", "md">>,
      <<"/", "p", "/", "inc", "/", "a", ".", "h">>,
      <<"/", "p", "/", "src", "/", "main", ".", "c">>,
      <<"/", "p", "/", "stub", "/", "OLD", ".", "md">> }
GroupFileLists ==
    { <<>>,
      << <<"src", "/", "main", ".", "c">> >>,
      << <<".", "/", "src", "/", "main", ".", "c">>, <<"src", "/", "main", ".", "c">> >>,
      << <<"src", "/", "gone", ".", "c">>, <<"src", "/", "main", ".", "c">> >>,
      << <<"src", "/", "main", ".", "c">>, <<"src", "/", "gone", ".", "c">> >> }
IncludeLists == { << <<>> >>, << <<"inc">> >>, << <<"inc">>, <<".", "/", "inc">> >> }

InitStub ==
    /\ heap = <<>>
    /\ elem = 0
    /\ root = 0
    /\ warnings = <<>>
    /\ hashOrder = [i \in 1..MaxDefaults |-> i]
    /\ \E disk \in SUBSET DiskFiles, gf \in GroupFileLists, inc \in IncludeLists,
          par \in BOOLEAN :
          file = [disk |-> disk, group_files |-> gf, include |-> inc, par |-> par,
                  mds |-> {}, files |-> {}, running |-> {}]
    /\ last = Op("init", "ok", <<>>, 0)

\* gen_stub (not inplace, an empty stub or the user's "y"): collect_links,
\* then every link is submitted to the pool, or copied at once without par
GenStub ==
    /\ last.op = "init"
    /\ file' = IF collect_links(file).err \/ ~file.par THEN file
               ELSE [file EXCEPT !.mds = collect_links(file).mds,
                                 !.files = collect_links(file).files]
    /\ last' = Op("gen_stub", IF collect_links(file).err THEN "raised" ELSE "ok", <<>>, 1)
    /\ UNCHANGED <<heap, elem, root, warnings, hashOrder>>

\* sync_stub: collect_status asserts that the sources of the links are
\* distinct ('multi key'); status is the links whose stub file is newer (any
\* of them); each is submitted as a copy from the stub back to the project
SyncStub ==
    /\ last.op = "init"
    /\ \E status \in SUBSET (collect_links(file).mds \cup collect_links(file).files) :
          /\ file' = IF \/ collect_links(file).err
                        \/ ~file.par
                        \/ \E a \in collect_links(file).mds, b \in collect_links(file).files :
                               a.src = b.src
                     THEN file
                     ELSE [file EXCEPT
                             !.mds = {Task(t.kind, t.dst, t.src) : t \in {u \in status : u.kind = "md"}},
                             !.files = {Task(t.kind, t.dst, t.src) : t \in {u \in status : u.kind = "file"}}]
          /\ last' = Op("sync_stub",
                        IF \/ collect_links(file).err
                           \/ \E a \in collect_links(file).mds, b \in collect_links(file).files :
                                  a.src = b.src
                        THEN "raised"
                        ELSE IF status = {} THEN "rejected" ELSE "ok",
                        <<>>, 1)
    /\ UNCHANGED <<heap, elem, root, warnings, hashOrder>>

\* a worker of the pool takes the next task: the markdown links were
\* submitted before the file links
StartTask ==
    /\ Cardinality(file.running) < MaxWorkers
    /\ \E t \in (IF file.mds # {} THEN file.mds ELSE file.files) :
          file' = [file EXCEPT !.mds = @ \ {t}, !.files = @ \ {t}, !.running = @ \cup {t}]
    /\ UNCHANGED <<heap, elem, root, warnings, hashOrder, last>>

\* a running copy ends
FinishTask ==
    /\ \E t \in file.running : file' = [file EXCEPT !.running = @ \ {t}]
    /\ UNCHANGED <<heap, elem, root, warnings, hashOrder, last>>

NextStub == GenStub \/ SyncStub \/ StartTask \/ FinishTask

SpecStub == InitStub /\ [][NextStub]_vars

\* C28: the copy tasks that gen_stub or sync_stub hands to the thread pool,
\* waiting or running, have pairwise distinct destination paths: no two of
\* them write the same file.
C28_DisjointDestinations ==
    last.op \in {"gen_stub", "sync_stub"} =>
        \A a, b \in file.mds \cup file.files \cup file.running : a # b => a.dst # b.dst

============================================================================
